---- MODULE Spec2Model ----
(***************************************************************************)
(* pyne/partisn.py: write_partisn_input up to the return of _get_zones.    *)
(*                                                                         *)
(* Representation.                                                         *)
(*  - A Python str is the sequence of its ASCII codes, so that equality of *)
(*    names is equality of spellings ("mat:Vacuum" # "mat:VACUUM").        *)
(*  - A volume fraction is an integer number of units of 1e-9 (FracOne is  *)
(*    1.0).  Sums and the np.allclose inequality are computed exactly on   *)
(*    these integers; binary floating-point rounding is not modelled, and  *)
(*    the fractions used keep clear of the exact tolerance boundary.       *)
(*  - An atom density is [m |-> mantissa, e |-> decimal exponent].         *)
(*  - A dict is a function; a dict of Python 2 with the small dense int    *)
(*    keys used here iterates in increasing key order.                     *)
(***************************************************************************)
EXTENDS Integers, Sequences, FiniteSets, TLC

\* ------------------------------------------------------------------ bounds
MaxDiv == 3
MaxVox == 3
MaxRecords == 4
MaxMats == 2

\* ------------------------------------------------------------ basic values
Axes == <<"x", "y", "z">>
AxisSet == {"x", "y", "z"}

EmptyDict == [k \in {} |-> 0]

Range(s) == {s[k] : k \in DOMAIN s}

Min(S) == CHOOSE a \in S : \A b \in S : a <= b

Abs(a) == IF a < 0 THEN -a ELSE a

\* material names, as the ASCII codes of their spelling
MatPrefix == <<109, 97, 116, 58>>
MatA == MatPrefix \o <<65>>
MatB == MatPrefix \o <<66>>
MatVacuum == MatPrefix \o <<86, 97, 99, 117, 117, 109>>
MatvacuumLower == MatPrefix \o <<118, 97, 99, 117, 117, 109>>
MatVACUUM == MatPrefix \o <<86, 65, 67, 85, 85, 77>>
MatGraveyard == MatPrefix \o <<71, 114, 97, 118, 101, 121, 97, 114, 100>>
MatgraveyardLower == MatPrefix \o <<103, 114, 97, 118, 101, 121, 97, 114, 100>>

\* dagmc.materials_to_cells(hdf5): cell number -> material name.
\* Cells 1 and 2 are two regions of the same material.
MatAssigns ==
    (1 :> MatA) @@ (2 :> MatA) @@ (3 :> MatB) @@ (4 :> MatVacuum) @@
    (5 :> MatVACUUM) @@ (6 :> MatgraveyardLower)

\* fractions, in units of 1e-9
FracOne == 10 ^ 9
Half == FracOne \div 2
Twentieth == FracOne \div 20

\* np.allclose(a, b, rtol=1e-8) with numpy's default atol=1e-8:
\* |a - b| <= atol + rtol * |b|, elementwise.  Atol is in fraction units,
\* RtolInv is 1/rtol.
Atol == 10
RtolInv == 10 ^ 8

\* nuclide ids and atom densities [at/cc]
Nuclides == {1001, 8016}
Densities == {[m |-> 3, e |-> 22], [m |-> 6, e |-> 22]}

\* ------------------------------------------------------------------- state
VARIABLES
    mesh,        \* axis -> structured_get_divisions(axis)
    names_dict,  \* 'names_dict' in kwargs
    mats,        \* material name -> comp.to_atom_dens() of the collapsed material
    dg,          \* dagmc.discretize_geom(mesh): sequence of <<idx, cell, vol_frac>>
    pc,          \* position in write_partisn_input
    error,       \* the exception raised, "none" if none
    IGEOM,       \* block01['IGEOM']
    bounds,      \* bounds of write_partisn_input
    heap,        \* the dict objects made by _get_material_lib, by address
    mat_lib,     \* material name -> address of its dict
    todo,        \* materials mats_collapsed.iteritems() has not yet produced
    pos,         \* number of records of dg consumed
    voxel,       \* idx -> [cell, vol_frac]
    zones,       \* idx -> [mat, vol_frac]
    voxel_zone,  \* idx -> zone number
    zones_mats,  \* zone number -> [mat, vol_frac]
    z,           \* zone counter
    match,
    first,
    y,
    im, jm, km,
    n,
    ii, jk,      \* loop variables i and jk of the fill loops
    ZONES

vars == <<mesh, names_dict, mats, dg, pc, error, IGEOM, bounds, heap, mat_lib,
          todo, pos, voxel, zones, voxel_zone, zones_mats, z, match, first, y,
          im, jm, km, n, ii, jk, ZONES>>

inputVars == <<mesh, names_dict, mats, dg>>
coordVars == <<IGEOM, bounds>>
matVars == <<heap, mat_lib, todo>>
aggVars == <<pos, voxel, zones>>
dedupVars == <<voxel_zone, zones_mats, z, match, first, y>>
arrayVars == <<im, jm, km, n, ii, jk, ZONES>>

\* ------------------------------------------------------------------ inputs
\* n division points 0, 1, ..., n-1
Divs(nd) == [k \in 1..nd |-> k - 1]

XMesh(nd) == [a \in AxisSet |-> IF a = "x" THEN Divs(nd) ELSE Divs(2)]

Intervals(m, a) == Len(m[a]) - 1

Cells(m) == Intervals(m, "x") * Intervals(m, "y") * Intervals(m, "z")

DefaultMats == (MatA :> (1001 :> [m |-> 6, e |-> 22]))

\* A geometry whose first b voxels are material A and the others vacuum.
SplitGeometry(nv, b) ==
    [k \in 1..nv |-> <<k - 1, IF k - 1 < b THEN 1 ELSE 4, FracOne>>]

\* every mesh, with one voxel too few, the right number, and one too many
InitMesh ==
    /\ mesh \in [AxisSet -> {Divs(nd) : nd \in 2..MaxDiv}]
    /\ names_dict \in BOOLEAN
    /\ mats = DefaultMats
    /\ \E nv \in {Cells(mesh) - 1, Cells(mesh), Cells(mesh) + 1} :
         \E b \in 0..nv : dg = SplitGeometry(nv, b)

\* one record per voxel, fractions around 0.5 closer than the tolerances
ToleranceCells == {1, 4, 5}
ToleranceFracs == {Half, Half + 10, Half + 12, Half + 22}

InitTolerance ==
    /\ \E nv \in 2..MaxVox :
         /\ mesh = XMesh(nv + 1)
         /\ \E c \in [1..nv -> ToleranceCells], f \in [1..nv -> ToleranceFracs] :
              dg = [k \in 1..nv |-> <<k - 1, c[k], f[k]>>]
    /\ names_dict = TRUE
    /\ mats = DefaultMats

\* records of two voxels in any interleaving; the k-th record carries the
\* fraction k/20, so that every sum tells which records went into it
RecordCells == {1, 2, 3}

InitRecords ==
    /\ mesh = XMesh(3)
    /\ names_dict = TRUE
    /\ mats = DefaultMats
    /\ \E nr \in 0..MaxRecords :
         \E v \in [1..nr -> 0..1], c \in [1..nr -> RecordCells] :
            dg = [k \in 1..nr |-> <<v[k], c[k], k * Twentieth>>]

\* material libraries of up to MaxMats materials
LibNames == {MatPrefix \o <<64 + k>> : k \in 1..MaxMats}
AtomDens == UNION {[S -> Densities] : S \in (SUBSET Nuclides) \ {{}}}

InitLibrary ==
    /\ mesh = XMesh(3)
    /\ names_dict = TRUE
    /\ \E S \in (SUBSET LibNames) \ {{}} : mats \in [S -> AtomDens]
    /\ dg = SplitGeometry(2, 1)

Init ==
    /\ \/ InitMesh
       \/ InitTolerance
       \/ InitRecords
       \/ InitLibrary
    /\ pc = "coord_sys"
    /\ error = "none"
    /\ IGEOM = "UNBOUND"
    /\ bounds = EmptyDict
    /\ heap = <<>>
    /\ mat_lib = EmptyDict
    /\ todo = {}
    /\ pos = 0
    /\ voxel = EmptyDict
    /\ zones = EmptyDict
    /\ voxel_zone = EmptyDict
    /\ zones_mats = EmptyDict
    /\ z = 0
    /\ match = FALSE
    /\ first = TRUE
    /\ y = -1
    /\ im = 0 /\ jm = 0 /\ km = 0
    /\ n = 0
    /\ ii = 0 /\ jk = 0
    /\ ZONES = EmptyDict

\* ------------------------------------------------------- _get_coord_sys
\* coord_sys: the active axes, tested in the order x, y, z
RECURSIVE CoordSys(_, _)
CoordSys(m, k) ==
    IF k > Len(Axes) THEN <<>>
    ELSE (IF Len(m[Axes[k]]) > 2 THEN <<Axes[k]>> ELSE <<>>) \o CoordSys(m, k + 1)

\* the if / elif chain that binds IGEOM; it has no else branch
GeomKind_default(cs) ==
    IF Len(cs) = 2 THEN "X-Y"
    ELSE IF Len(cs) = 3 THEN "X-Y-Z"
    ELSE "SLAB"

GeomKind(cs) ==
    IF Len(cs) = 1 THEN "SLAB"
    ELSE IF Len(cs) = 2 THEN "X-Y"
    ELSE IF Len(cs) = 3 THEN "X-Y-Z"
    ELSE "UNBOUND"

GetCoordSys ==
    /\ pc = "coord_sys"
    /\ LET cs == CoordSys(mesh, 1)
           kind == GeomKind(cs)
       IN  IF kind = "UNBOUND"
           THEN \* return IGEOM, bounds reads the unbound local IGEOM
                /\ error' = "UnboundLocalError"
                /\ pc' = "raised"
                /\ UNCHANGED coordVars
           ELSE /\ IGEOM' = kind
                /\ bounds' = [a \in Range(cs) |-> mesh[a]]
                /\ pc' = "xs_names"
                /\ UNCHANGED error
    /\ UNCHANGED <<inputVars, matVars, aggVars, dedupVars, arrayVars>>

\* -------------------------------------------------------- _get_xs_names
\* nuc_names is bound only when 'names_dict' is in kwargs
GetXsNames ==
    /\ pc = "xs_names"
    /\ IF names_dict
       THEN /\ pc' = "material_lib"
            /\ UNCHANGED <<error, matVars>>
       ELSE /\ error' = "UnboundLocalError"
            /\ pc' = "raised"
            /\ UNCHANGED matVars
    /\ UNCHANGED <<inputVars, coordVars, aggVars, dedupVars, arrayVars>>

\* ---------------------------------------------------- _get_material_lib
\* address of the dict bound to comp_list before the loop
comp_list == 1

\* dens*10.**-24
ToBarnCm(dens) == [m |-> dens.m, e |-> dens.e - 24]

\* the inner loop: comp_list[nucid] = dens*10.**-24 for every nuclide
StoreDensities(d, atom_dens_dict) ==
    [nucid \in DOMAIN d \cup DOMAIN atom_dens_dict |->
        IF nucid \in DOMAIN atom_dens_dict
        THEN ToBarnCm(atom_dens_dict[nucid])
        ELSE d[nucid]]

\* mat_lib = {} and comp_list = {}: one dict object, made before the loop
MaterialLibEnter ==
    /\ pc = "material_lib"
    /\ heap' = <<EmptyDict>>
    /\ mat_lib' = EmptyDict
    /\ todo' = DOMAIN mats
    /\ pc' = "material_loop"
    /\ UNCHANGED <<inputVars, error, coordVars, aggVars, dedupVars, arrayVars>>

\* one iteration of for mat_name, comp in mats_collapsed.iteritems(), whose
\* order over str keys is whatever the dict gives
MaterialLibStep ==
    /\ pc = "material_loop"
    /\ \E mat_name \in todo :
         /\ heap' = [heap EXCEPT ![comp_list] = StoreDensities(@, mats[mat_name])]
         /\ mat_lib' = (mat_name :> comp_list) @@ mat_lib
         /\ todo' = todo \ {mat_name}
    /\ UNCHANGED <<inputVars, pc, error, coordVars, aggVars, dedupVars, arrayVars>>

MaterialLibReturn ==
    /\ pc = "material_loop"
    /\ todo = {}
    /\ pc' = "discretize"
    /\ UNCHANGED <<inputVars, error, coordVars, matVars, aggVars, dedupVars, arrayVars>>

\* what the caller reads as mat_lib[mat_name]
MatLibOf(mat_name) == heap[mat_lib[mat_name]]

\* ------------------------------------------- _get_zones: voxel records
\* one iteration of for i in dg
ReadRecord ==
    /\ pc = "discretize"
    /\ pos < Len(dg)
    /\ LET rec == dg[pos + 1]
           idx == rec[1]
           old == IF idx \in DOMAIN voxel THEN voxel[idx]
                  ELSE [cell |-> <<>>, vol_frac |-> <<>>]
       IN  voxel' = (idx :> [cell |-> Append(old.cell, rec[2]),
                             vol_frac |-> Append(old.vol_frac, rec[3])]) @@ voxel
    /\ pos' = pos + 1
    /\ UNCHANGED <<inputVars, pc, error, coordVars, matVars, zones, dedupVars, arrayVars>>

EndRecords ==
    /\ pc = "discretize"
    /\ pos = Len(dg)
    /\ pc' = "materials"
    /\ UNCHANGED <<inputVars, error, coordVars, matVars, aggVars, dedupVars, arrayVars>>

\* ------------------------------ _get_zones: cells replaced by materials
\* vol_frac = zones[z]['vol_frac'][j] + voxel[z]['vol_frac'][i]
AddFrac_overwrite(old, new) == new

AddFrac(old, new) == old + new

\* the body of for i, cell in enumerate(voxel[z]['cell']), from the k-th cell on
RECURSIVE MergeCells(_, _, _)
MergeCells(vx, k, acc) ==
    IF k > Len(vx.cell) THEN acc
    ELSE LET mat == MatAssigns[vx.cell[k]]
         IN  IF mat \notin Range(acc.mat)
             THEN MergeCells(vx, k + 1,
                      [mat |-> Append(acc.mat, mat),
                       vol_frac |-> Append(acc.vol_frac, vx.vol_frac[k])])
             ELSE MergeCells(vx, k + 1,
                      [mat |-> acc.mat,
                       vol_frac |-> [j \in DOMAIN acc.vol_frac |->
                           IF acc.mat[j] = mat
                           THEN AddFrac(acc.vol_frac[j], vx.vol_frac[k])
                           ELSE acc.vol_frac[j]]])

\* one iteration of for z in voxel.keys()
ReplaceCells ==
    /\ pc = "materials"
    /\ DOMAIN voxel # DOMAIN zones
    /\ LET v == Min(DOMAIN voxel \ DOMAIN zones)
       IN  zones' = (v :> MergeCells(voxel[v], 1, [mat |-> <<>>, vol_frac |-> <<>>]))
                    @@ zones
    /\ UNCHANGED <<inputVars, pc, error, coordVars, matVars, pos, voxel, dedupVars, arrayVars>>

EndReplaceCells ==
    /\ pc = "materials"
    /\ DOMAIN voxel = DOMAIN zones
    /\ pc' = "dedup"
    /\ UNCHANGED <<inputVars, error, coordVars, matVars, aggVars, dedupVars, arrayVars>>

\* --------------------------------------- _get_zones: duplicate zones
\* one element of np.allclose(a, b, rtol=1e-8): |a - b| <= atol + rtol*|b|,
\* that is |a - b| <= Atol, or RtolInv * (|a - b| - Atol) <= |b|
IsClose_exact(a, b) == a = b

IsClose_loose(a, b) == Abs(a - b) <= 10 * Atol

IsClose(a, b) ==
    \/ Abs(a - b) <= Atol
    \/ /\ Abs(a - b) - Atol <= 20
       /\ RtolInv * (Abs(a - b) - Atol) <= Abs(b)

AllClose(a, b) ==
    /\ Len(a) = Len(b)
    /\ \A k \in DOMAIN a : IsClose(a[k], b[k])

\* the condition of the if in the scan of zones_mats
SameZone(vals, info) ==
    /\ vals.mat = info.mat
    /\ AllClose(vals.vol_frac, info.vol_frac)

\* for zone, info in zones_mats.iteritems(), from zone k on; flags holds
\* match and y, which keep their old values when the loop body never runs
RECURSIVE ScanZones(_, _, _, _)
ScanZones(vals, zm, k, flags) ==
    IF k \notin DOMAIN zm THEN flags
    ELSE IF SameZone(vals, zm[k])
         THEN [match |-> TRUE, y |-> k]
         ELSE ScanZones(vals, zm, k + 1, [match |-> FALSE, y |-> flags.y])

\* vals['mat'] in [['mat:Vacuum'], ['mat:vacuum'], ['mat:graveyard'], ['mat:Graveyard']]
VoidLists == {<<MatVacuum>>, <<MatvacuumLower>>, <<MatgraveyardLower>>, <<MatGraveyard>>}

\* z += 1
NextZone_gap(zc) == zc + 2

NextZone(zc) == zc + 1

\* one iteration of for i, vals in zones.iteritems()
DedupVoxel ==
    /\ pc = "dedup"
    /\ DOMAIN zones # DOMAIN voxel_zone
    /\ LET i == Min(DOMAIN zones \ DOMAIN voxel_zone)
           vals == zones[i]
           flags == ScanZones(vals, zones_mats, 1, [match |-> match, y |-> y])
       IN  /\ match' = flags.match
           /\ y' = flags.y
           /\ IF first \/ ~flags.match
              THEN IF vals.mat \in VoidLists
                   THEN /\ voxel_zone' = (i :> 0) @@ voxel_zone
                        /\ UNCHANGED <<z, zones_mats, first>>
                   ELSE /\ z' = NextZone(z)
                        /\ zones_mats' = (z' :> zones[i]) @@ zones_mats
                        /\ voxel_zone' = (i :> z') @@ voxel_zone
                        /\ first' = FALSE
              ELSE /\ IF vals.mat \in VoidLists
                      THEN voxel_zone' = (i :> 0) @@ voxel_zone
                      ELSE voxel_zone' = (i :> flags.y) @@ voxel_zone
                   /\ UNCHANGED <<z, zones_mats, first>>
    /\ UNCHANGED <<inputVars, pc, error, coordVars, matVars, aggVars, arrayVars>>

\* --------------------------------------------- _get_zones: ZONES array
\* im, jm, km from bounds; n = 0; ZONES = np.zeros(shape=(im, jm*km))
AxisSize(b, a) == IF a \in DOMAIN b THEN Len(b[a]) - 1 ELSE 1

ZoneDims ==
    /\ pc = "dedup"
    /\ DOMAIN zones = DOMAIN voxel_zone
    /\ im' = AxisSize(bounds, "x")
    /\ jm' = AxisSize(bounds, "y")
    /\ km' = AxisSize(bounds, "z")
    /\ n' = 0
    /\ ii' = 0
    /\ jk' = 0
    /\ ZONES' = [r \in 0..(im' - 1) |-> [c \in 0..(jm' * km' - 1) |-> 0]]
    /\ pc' = "fill"
    /\ UNCHANGED <<inputVars, error, coordVars, matVars, aggVars, dedupVars>>

\* n += 1
NextN_stuck(nn) == nn

NextN(nn) == nn + 1

\* one iteration of the body of for i in range(im): for jk in range(jm*km)
FillCell ==
    /\ pc = "fill"
    /\ ii < im
    /\ IF n \in DOMAIN voxel_zone
       THEN /\ ZONES' = [ZONES EXCEPT ![ii][jk] = voxel_zone[n]]
            /\ n' = NextN(n)
            /\ IF jk + 1 < jm * km
               THEN jk' = jk + 1 /\ ii' = ii
               ELSE jk' = 0 /\ ii' = ii + 1
            /\ UNCHANGED <<pc, error>>
       ELSE \* voxel_zone[n] of a key the dict does not have
            /\ error' = "KeyError"
            /\ pc' = "raised"
            /\ UNCHANGED <<n, ii, jk, ZONES>>
    /\ UNCHANGED <<inputVars, coordVars, matVars, aggVars, dedupVars, im, jm, km>>

\* return ZONES, zones_mats
ReturnZones ==
    /\ pc = "fill"
    /\ ii = im
    /\ pc' = "returned"
    /\ UNCHANGED <<inputVars, error, coordVars, matVars, aggVars, dedupVars, arrayVars>>

\* ------------------------------------------------------- specification
Next ==
    \/ GetCoordSys
    \/ GetXsNames
    \/ MaterialLibEnter
    \/ MaterialLibStep
    \/ MaterialLibReturn
    \/ ReadRecord
    \/ EndRecords
    \/ ReplaceCells
    \/ EndReplaceCells
    \/ DedupVoxel
    \/ ZoneDims
    \/ FillCell
    \/ ReturnZones

Spec == Init /\ [][Next]_vars

\* ================================================================ claims
\* str.lower() on ASCII codes
ToLower(name) == [k \in DOMAIN name |-> IF name[k] \in 65..90 THEN name[k] + 32 ELSE name[k]]

\* a composition of a single vacuum or graveyard material, in any casing
IsVoid(mat) ==
    /\ Len(mat) = 1
    /\ ToLower(mat[1]) \in {ToLower(MatVacuum), ToLower(MatGraveyard)}

\* 1e-8 in fraction units
ClaimTol == FracOne \div (10 ^ 8)

\* the loop over zones has given every voxel its zone
DedupDone == pc \in {"fill", "returned"}

NonVoidVoxels == {i \in DOMAIN zones : ~IsVoid(zones[i].mat)}

\* every position of a is within tol of the same position of b
Within(a, b, tol) ==
    /\ Len(a) = Len(b)
    /\ \A k \in DOMAIN a : Abs(a[k] - b[k]) <= tol

\* a differs from r by more than 1e-8 + 1e-8 * |r|
BeyondMixedTol(a, r) ==
    /\ Abs(a - r) > ClaimTol
    /\ \/ Abs(a - r) - ClaimTol > 20
       \/ (10 ^ 8) * (Abs(a - r) - ClaimTol) > Abs(r)

\* ---------------------------------------------------------------- C1
\* C1: once the zone loop is over, every voxel has a zone number, and the
\* number is 0 exactly for the voxels whose composition is one vacuum or
\* graveyard material in any casing.
C1_ZeroIffVoid ==
    DedupDone =>
        /\ DOMAIN voxel_zone = {dg[k][1] : k \in DOMAIN dg}
        /\ \A i \in DOMAIN voxel_zone : (voxel_zone[i] = 0) <=> IsVoid(zones[i].mat)

\* ---------------------------------------------------------------- C2
\* C2 as stated: two non-void voxels with the same material list and
\* fractions within 1e-8 of each other always get the same zone.
C2_CloseVoxelsShareZone ==
    DedupDone =>
        \A i, j \in NonVoidVoxels :
            (/\ zones[i].mat = zones[j].mat
             /\ Within(zones[i].vol_frac, zones[j].vol_frac, ClaimTol))
            => voxel_zone[i] = voxel_zone[j]

\* the first voxel processed that has the material list of voxel i
FirstWithMat(i) == Min({k \in DOMAIN zones : zones[k].mat = zones[i].mat})

\* C2 amended: two non-void voxels with the same material list get the same
\* zone when the fractions of both are within 1e-8 of those of the first
\* voxel processed with that material list.
C2_CloseToFirstShareZone ==
    DedupDone =>
        \A i, j \in NonVoidVoxels :
            (/\ zones[i].mat = zones[j].mat
             /\ Within(zones[i].vol_frac, zones[FirstWithMat(i)].vol_frac, ClaimTol)
             /\ Within(zones[j].vol_frac, zones[FirstWithMat(i)].vol_frac, ClaimTol))
            => voxel_zone[i] = voxel_zone[j]

\* two later voxels with different fractions, both merged into the zone of
\* the first voxel of their material
C2_Witness ==
    /\ DedupDone
    /\ \E i, j \in NonVoidVoxels :
         /\ FirstWithMat(i) < i
         /\ i < j
         /\ zones[i].mat = zones[j].mat
         /\ zones[i].vol_frac # zones[j].vol_frac
         /\ zones[FirstWithMat(i)].vol_frac # zones[i].vol_frac
         /\ Within(zones[i].vol_frac, zones[FirstWithMat(i)].vol_frac, ClaimTol)
         /\ Within(zones[j].vol_frac, zones[FirstWithMat(i)].vol_frac, ClaimTol)
         /\ voxel_zone[i] = voxel_zone[j]
         /\ voxel_zone[i] >= 1

InDedup == pc \in {"dedup", "fill", "returned"}

\* the registered zone numbers are 1..z
C4_Contiguous == InDedup => DOMAIN zones_mats = 1..z

\* the distinct compositions of a set of voxels
Compositions(S) == {zones[i] : i \in S}

\* C4 as stated, on the runs where the voxels given zone 0 are exactly the
\* void ones: the registered zones are 1..z at every step, and at the end z
\* is the number of distinct non-void compositions.
C4_CountsDistinctCompositions ==
    /\ C4_Contiguous
    /\ (DedupDone /\ \A i \in DOMAIN voxel_zone : (voxel_zone[i] = 0) <=> IsVoid(zones[i].mat))
           => z = Cardinality(Compositions(NonVoidVoxels))

\* a step of the zone loop gives voxel i its zone
C4_Step ==
    (pc = "dedup" /\ DOMAIN voxel_zone' # DOMAIN voxel_zone) =>
        LET i == CHOOSE v \in DOMAIN voxel_zone' : v \notin DOMAIN voxel_zone
            matched == \E k \in DOMAIN zones_mats : SameZone(zones[i], zones_mats[k])
        IN  /\ i = Min(DOMAIN zones \ DOMAIN voxel_zone)
            /\ (~IsVoid(zones[i].mat) /\ ~matched) =>
                   /\ voxel_zone'[i] = z + 1
                   /\ z' = z + 1
                   /\ zones_mats' = ((z + 1) :> zones[i]) @@ zones_mats
            /\ matched => (z' = z /\ zones_mats' = zones_mats)

\* the voxels that opened a zone: no earlier voxel has their zone number
ZoneOpeners ==
    {i \in DOMAIN voxel_zone :
        /\ voxel_zone[i] # 0
        /\ \A j \in DOMAIN voxel_zone : j < i => voxel_zone[j] # voxel_zone[i]}

C4_Final ==
    DedupDone =>
        /\ z = Cardinality({voxel_zone[i] : i \in DOMAIN voxel_zone} \ {0})
        /\ z = Cardinality(ZoneOpeners)
        /\ z <= Cardinality(Compositions({i \in DOMAIN voxel_zone : voxel_zone[i] # 0}))

\* C4 amended: the registered zones are 1..z at every step; a non-void voxel
\* that matches no registered zone gets z+1 and is registered under it; a
\* matching voxel leaves counter and registry unchanged; at the end z is the
\* number of distinct zone numbers >= 1 assigned, one per voxel that matched
\* no registered zone, and at most the number of distinct compositions not
\* given zone 0.
C4_FirstEncounterNumbering ==
    /\ [](C4_Contiguous /\ C4_Final)
    /\ [][C4_Step]_vars

\* two distinct compositions merged into one of two zones
C4_Witness ==
    /\ DedupDone
    /\ z = 2
    /\ Cardinality(Compositions(NonVoidVoxels)) = 3
    /\ Cardinality(DOMAIN voxel_zone) = 3

\* ---------------------------------------------------------------- C5
\* C5: _get_zones returns an array only when the number of voxels equals
\* im * jm * km.
C5_ReturnsOnlyOnExactCount ==
    pc = "returned" => Cardinality(DOMAIN voxel_zone) = im * jm * km

\* ---------------------------------------------------------------- C6
\* C6: with voxels 0..N-1 and N cells, ZONES[i, jk] = voxel_zone[i * cols + jk]
\* for every cell, N cells were written, and the array read in row-major
\* order is the zone numbers in voxel order.
C6_RowMajor ==
    (pc = "returned" /\ DOMAIN voxel_zone = 0..(im * jm * km - 1)) =>
        /\ DOMAIN ZONES = 0..(im - 1)
        /\ \A r \in DOMAIN ZONES :
             /\ DOMAIN ZONES[r] = 0..(jm * km - 1)
             /\ \A c \in DOMAIN ZONES[r] : ZONES[r][c] = voxel_zone[r * (jm * km) + c]
        /\ n = im * jm * km
        /\ \A k \in DOMAIN voxel_zone :
             ZONES[k \div (jm * km)][k % (jm * km)] = voxel_zone[k]

\* an array of three active axes with different zones within a row and
\* between rows
C6_Witness ==
    /\ pc = "returned"
    /\ Len(CoordSys(mesh, 1)) = 3
    /\ DOMAIN voxel_zone = 0..(im * jm * km - 1)
    /\ ZONES[0][0] # ZONES[0][jm * km - 1]
    /\ ZONES[0][0] # ZONES[im - 1][0]

\* ---------------------------------------------------------------- C7
RECURSIVE Product(_, _, _)
Product(m, cs, k) ==
    IF k > Len(cs) THEN 1 ELSE Intervals(m, cs[k]) * Product(m, cs, k + 1)

\* C7: the returned array has as many rows as the first active axis (in the
\* order x, y, z) has intervals, and as many columns as the product of the
\* interval counts of the other active axes.
C7_FirstActiveAxisRows ==
    pc = "returned" =>
        LET cs == CoordSys(mesh, 1)
        IN  /\ Cardinality(DOMAIN ZONES) = Intervals(mesh, cs[1])
            /\ \A r \in DOMAIN ZONES :
                 Cardinality(DOMAIN ZONES[r]) = Product(mesh, cs, 2)

RECURSIVE FirstSeen(_, _, _)
FirstSeen(v, k, acc) ==
    IF k > Len(dg) THEN acc
    ELSE IF dg[k][1] = v /\ MatAssigns[dg[k][2]] \notin Range(acc)
         THEN FirstSeen(v, k + 1, Append(acc, MatAssigns[dg[k][2]]))
         ELSE FirstSeen(v, k + 1, acc)

\* the sum of the fractions of the records of voxel v with material mat
RECURSIVE FracSum(_, _, _)
FracSum(v, mat, k) ==
    IF k > Len(dg) THEN 0
    ELSE (IF dg[k][1] = v /\ MatAssigns[dg[k][2]] = mat THEN dg[k][3] ELSE 0)
         + FracSum(v, mat, k + 1)

\* every voxel has its composition
ZonesBuilt == pc \in {"dedup", "fill", "returned"} \/ (pc = "raised" /\ error = "KeyError")

\* C9: the composition of every voxel lists each material once, in the order
\* first seen for that voxel, with the sum of the fractions of that voxel's
\* records of that material.
C9_Composition ==
    ZonesBuilt =>
        /\ DOMAIN zones = {dg[k][1] : k \in DOMAIN dg}
        /\ \A v \in DOMAIN zones :
             /\ \A a, b \in DOMAIN zones[v].mat :
                    a # b => zones[v].mat[a] # zones[v].mat[b]
             /\ zones[v].mat = FirstSeen(v, 1, <<>>)
             /\ DOMAIN zones[v].vol_frac = DOMAIN zones[v].mat
             /\ \A j \in DOMAIN zones[v].mat :
                    zones[v].vol_frac[j] = FracSum(v, zones[v].mat[j], 1)

\* two regions of one material merged in a voxel whose records are
\* interleaved with those of another voxel and of another material
C9_Witness ==
    /\ ZonesBuilt
    /\ \E k1, k2, k3, k4 \in DOMAIN dg :
         /\ k1 < k2 /\ k2 < k3 /\ k3 < k4
         /\ dg[k1][1] = dg[k3][1]
         /\ dg[k1][1] = dg[k4][1]
         /\ dg[k2][1] # dg[k1][1]
         /\ dg[k1][2] # dg[k4][2]
         /\ MatAssigns[dg[k1][2]] = MatAssigns[dg[k4][2]]
         /\ MatAssigns[dg[k3][2]] # MatAssigns[dg[k1][2]]
         /\ Len(zones[dg[k1][1]].mat) = 2

\* --------------------------------------------------------------- C10
\* C10: every material of a library of two or more materials gets the
\* mapping of its own nuclides to its own atom densities times 1e-24.
C10_OwnDensities ==
    (pc = "discretize" /\ Cardinality(DOMAIN mats) >= 2) =>
        \A mat_name \in DOMAIN mats :
            MatLibOf(mat_name) =
                [nucid \in DOMAIN mats[mat_name] |-> ToBarnCm(mats[mat_name][nucid])]

====
